---------------------------- MODULE Spec2Model ----------------------------
(***************************************************************************)
(* Multi-tenant e-commerce backend: the tenant Isolation Gate              *)
(* (core/middleware.py, core/utils.py), the tenant-management command      *)
(* (core/management/commands/toggle_tenant.py), the Checkout Orchestrator  *)
(* and the Payment Reconciler (payments/views.py, payments/models.py,      *)
(* products/models.py).                                                    *)
(*                                                                         *)
(* A worker is one server thread: it owns one threading.local carrier and  *)
(* handles one request at a time; different workers run concurrently and   *)
(* share the tenant cache and the database.                                *)
(***************************************************************************)
EXTENDS Integers, Sequences, FiniteSets, TLC

VARIABLES
    tenants,     \* Tenant Directory: id -> [name, domain, is_active]
    cache,       \* tenant cache: key -> Miss | Neg | snapshot of a Tenant row
    rate,        \* django_ratelimit: per client IP, the requests counted in this window
    carrier,     \* per worker: the attributes of _thread_locals
    pc,          \* per worker: where the worker is in handling its request
    req,         \* per worker: the request being (or last) handled
    reqTenant,   \* per worker: request.tenant (Unset until the gate assigns it)
    resp,        \* per worker: what __call__ returned for the last request
    logged,      \* per worker: what get_current_tenant() gave the log filter
    handled,     \* per worker: how the downstream handler ended
    hresp,       \* per worker: the response the downstream handler returned
    nreq,        \* number of requests received so far
    products,    \* Product rows: id -> row
    bookings,    \* committed Booking rows: id -> row
    items,       \* committed BookingItem rows: <<booking id, line>> -> row
    nextId,      \* the Booking id sequence of the database
    tx,          \* per worker: the rows written inside an open transaction
    loc,         \* per worker: the locals of the running payment view
    sessions,    \* payment gateway: the booking ids checkout sessions exist for
    mails,       \* booking id -> confirmation mails attempted
    clock,       \* timezone.now(), counted in mark_as_paid calls
    touched      \* per worker: tenants whose rows the current request read or wrote

payVars == <<products, bookings, items, nextId, tx, loc, sessions, mails, clock,
             touched>>

vars == <<tenants, cache, rate, carrier, pc, req, reqTenant, resp, logged,
          handled, hresp, nreq, products, bookings, items, nextId, tx, loc,
          sessions, mails, clock, touched>>

-----------------------------------------------------------------------------
(* Bounds of the model *)

MaxRequests == 3      \* requests received in one behaviour of the gate alone
MaxPayRequests == 3   \* requests received in one behaviour with the payment views
MaxSeqRequests == 4   \* requests one worker serves one after the other
MaxCatalogRequests == 2  \* requests served while the catalog is edited
MaxRaceRequests == 2     \* 'checkout completed' events delivered side by side
RateLimit == 2        \* TENANT_RATE_LIMIT ('100/m') scaled down; a behaviour
                      \* lies within one rate-limit window

-----------------------------------------------------------------------------
(* Values *)

Workers == {"w1", "w2"}
Tenants == {1, 2}

Unset == -1           \* attribute absent (hasattr is false)
NoTenant == 0         \* Python None / False

\* What a lookup yields and what the cache stores under a key: a pickled
\* Tenant row (id > 0 with the is_active it had when read), False (Neg), or
\* nothing at all (Miss: cache.get returns None).
Miss == [id |-> Unset, is_active |-> FALSE]
Neg == [id |-> NoTenant, is_active |-> FALSE]
NoneRes == Neg

Truthy(v) == v.id > 0

\* Tenant.Meta.ordering = ['name']
NameOrder == <<"acme", "shop">>
Names == {NameOrder[i] : i \in 1..Len(NameOrder)}
NameRank(n) == CHOOSE i \in 1..Len(NameOrder) : NameOrder[i] = n

Hosts == {"acme.example.com", "shop.example.com", "www.example.com"}

\* host.split('.')[0] when the host has at least two parts
Label(host) ==
    CASE host = "acme.example.com" -> "acme"
      [] host = "shop.example.com" -> "shop"
      [] host = "www.example.com" -> "www"
      [] OTHER -> ""

CacheKeys == ({"jwt"} \X (Names \cup Hosts)) \cup ({"name"} \X Names)
             \cup ({"domain"} \X Hosts)

NoToken == [kind |-> "none", claim |-> ""]

IPs == {"client", "gateway"}

NoReq == [id |-> 0, path |-> <<>>, token |-> NoToken, header |-> "", host |-> "",
          ip |-> "client"]
NoResp == [status |-> 0, code |-> "", tenant_id |-> NoTenant]

\* The directory rows as provisioned (create_tenant): the domain's leading
\* label is the tenant's name.
PlainDirectory ==
    [t \in Tenants |->
        IF t = 1 THEN [name |-> "acme", domain |-> "acme.example.com", is_active |-> TRUE]
                 ELSE [name |-> "shop", domain |-> "shop.example.com", is_active |-> TRUE]]

-----------------------------------------------------------------------------
(* core/utils.py: the Request Context Carrier *)

get_current_tenant(c) == IF c.tenant = Unset THEN NoTenant ELSE c.tenant
get_current_request(c) == IF c.request = Unset THEN 0 ELSE c.request

set_current_tenant(c, t) == [c EXCEPT !.tenant = t]
set_current_request(c, r) == [c EXCEPT !.request = r]

clear_thread_locals(c) == [tenant |-> Unset, request |-> Unset]

EmptyCarrier == [tenant |-> Unset, request |-> Unset]

\* _thread_locals = threading.local(): every thread sees its own attributes.
SlotProcessWide(w) == "w1"

Slot(w) == w

-----------------------------------------------------------------------------
(* core/middleware.py: the Tenant Resolver *)

\* The exempt prefixes with the webhook route among them.
EXEMPT_PATHS_with_webhook ==
    {<<"admin">>, <<"static">>, <<"media">>, <<"health">>,
     <<"api", "auth">>, <<"api", "schema">>, <<"api", "docs">>,
     <<"api", "payments", "webhook">>}

EXEMPT_PATHS == {<<"admin">>, <<"static">>, <<"media">>, <<"health">>,
                 <<"api", "auth">>, <<"api", "schema">>, <<"api", "docs">>}

IsPrefix(p, s) == Len(p) <= Len(s) /\ SubSeq(s, 1, Len(p)) = p

_is_exempt_path(path) == \E e \in EXEMPT_PATHS : IsPrefix(e, path)

\* QuerySet.first() under Meta.ordering = ['name']
First(dir, S) ==
    IF S = {} THEN NoneRes
    ELSE LET t == CHOOSE x \in S : \A y \in S : NameRank(dir[x].name) <= NameRank(dir[y].name)
         IN [id |-> t, is_active |-> dir[t].is_active]

\* cache.set(key, tenant) on a hit in the Directory, cache.set(key, False)
\* otherwise; the caller gets the row or None.
Remember(c, key, row) ==
    IF Truthy(row) THEN [res |-> row, cache |-> [c EXCEPT ![key] = row], raised |-> FALSE]
    ELSE [res |-> NoneRes, cache |-> [c EXCEPT ![key] = Neg], raised |-> FALSE]

Raise(c) == [res |-> NoneRes, cache |-> c, raised |-> TRUE]

\* The header lookup keeping its entries under the key of the token lookup.
_get_tenant_by_name_shared_key(c, dir, tenant_name) ==
    LET key == <<"jwt", tenant_name>>
        hit == c[key]
    IN IF hit = Miss
       THEN Remember(c, key,
                First(dir, {t \in Tenants : dir[t].name = tenant_name /\ dir[t].is_active}))
       ELSE [res |-> hit, cache |-> c, raised |-> FALSE]

_get_tenant_by_name(c, dir, tenant_name) ==
    LET key == <<"name", tenant_name>>
        hit == c[key]
    IN IF hit = Miss
       THEN Remember(c, key,
                First(dir, {t \in Tenants : dir[t].name = tenant_name /\ dir[t].is_active}))
       ELSE [res |-> hit, cache |-> c, raised |-> FALSE]

_get_tenant_by_domain_or_first(c, dir, host) ==
    LET key == <<"domain", host>>
        hit == c[key]
        subdomain == Label(host)
        byDomain == {t \in Tenants : dir[t].domain = host /\ dir[t].is_active}
        byLabel == IF subdomain # "" /\ subdomain # "www"
                   THEN {t \in Tenants : dir[t].name = subdomain /\ dir[t].is_active}
                   ELSE {}
        matched == byDomain \cup byLabel
    IN IF hit = Miss
       THEN Remember(c, key,
                First(dir, IF matched # {} THEN matched
                           ELSE {t \in Tenants : dir[t].is_active}))
       ELSE [res |-> hit, cache |-> c, raised |-> FALSE]

_get_tenant_by_domain(c, dir, host) ==
    LET key == <<"domain", host>>
        hit == c[key]
        subdomain == Label(host)
        byDomain == {t \in Tenants : dir[t].domain = host /\ dir[t].is_active}
        byLabel == IF subdomain # "" /\ subdomain # "www"
                   THEN {t \in Tenants : dir[t].name = subdomain /\ dir[t].is_active}
                   ELSE {}
    IN IF hit = Miss
       THEN Remember(c, key, First(dir, byDomain \cup byLabel))
       ELSE [res |-> hit, cache |-> c, raised |-> FALSE]

\* jwt.decode raises for an expired, malformed or badly signed token; any
\* exception inside the method (the cache or the Directory failing too) is
\* caught and answered (None, None).
_get_tenant_from_jwt(c, dir, token, fails) ==
    IF token.kind # "valid" THEN [res |-> NoneRes, cache |-> c, raised |-> FALSE]
    ELSE IF token.claim = "" THEN [res |-> NoneRes, cache |-> c, raised |-> FALSE]
    ELSE IF fails THEN [res |-> NoneRes, cache |-> c, raised |-> FALSE]
    ELSE LET key == <<"jwt", token.claim>>
             hit == c[key]
         IN IF hit = Miss
            THEN Remember(c, key,
                    First(dir, {t \in Tenants :
                                  /\ dir[t].name = token.claim \/ dir[t].domain = token.claim
                                  /\ dir[t].is_active}))
            ELSE [res |-> hit, cache |-> c, raised |-> FALSE]

\* __call__ step 3: token, then X-Tenant header, then host.  fail names the
\* lookup whose cache or Directory call raises ("none": no dependency fails).
Resolve(c, dir, r, fail) ==
    LET tok == IF r.token.kind # "none"
               THEN _get_tenant_from_jwt(c, dir, r.token, fail = "jwt")
               ELSE [res |-> NoneRes, cache |-> c, raised |-> FALSE]
        hdr == IF Truthy(tok.res) THEN tok
               ELSE IF r.header # ""
               THEN IF fail = "header" THEN Raise(tok.cache)
                    ELSE _get_tenant_by_name(tok.cache, dir, r.header)
               ELSE [res |-> NoneRes, cache |-> tok.cache, raised |-> FALSE]
    IN IF hdr.raised \/ Truthy(hdr.res) THEN hdr
       ELSE IF fail = "host" THEN Raise(hdr.cache)
       ELSE _get_tenant_by_domain(hdr.cache, dir, r.host)


-----------------------------------------------------------------------------
(* core/middleware.py: the Isolation Gate, TenantMiddleware.__call__ *)

FailPoints == {"none", "jwt", "header", "host"}

\* backend/urls.py, payments/urls.py: the routes of the payment views
CheckoutPath == <<"api", "payments", "bookings", "create_checkout">>
BookingsPath == <<"api", "payments", "bookings">>
WebhookPath == <<"api", "payments", "webhook">>
PaymentPaths == {CheckoutPath, BookingsPath, WebhookPath}

Response(status, code) == [status |-> status, code |-> code, tenant_id |-> NoTenant]

\* An exception leaving __call__ (Django's outer layer turns it into a 500).
Propagated == Response(500, "exception")

Min(a, b) == IF a < b THEN a ELSE b

\* The limiter counting without ever refusing.
_apply_rate_limiting_unlimited(n) == Min(n + 1, RateLimit)

\* django_ratelimit, key='ip': count this request, refuse above the limit.
_apply_rate_limiting(n) == Min(n + 1, RateLimit + 1)

\* Lines 43-127: from the entry to the call of get_response, or to the
\* response the gate itself returns.  r is the request, fail the dependency
\* that is down while it is resolved.
Gate(w, r, fail) ==
    /\ pc[w] = "idle"
    /\ r.id = nreq + 1
    /\ nreq' = nreq + 1
    /\ req' = [req EXCEPT ![w] = r]
    /\ handled' = [handled EXCEPT ![w] = "none"]
    /\ hresp' = [hresp EXCEPT ![w] = NoResp]
    /\ touched' = [touched EXCEPT ![w] = {}]
    /\ UNCHANGED <<tenants, products, bookings, items, nextId, tx, loc, sessions, mails, clock>>
    /\ LET c0 == set_current_request(carrier[Slot(w)], r.id)
           counted == _apply_rate_limiting(rate[r.ip])
           res == Resolve(cache, tenants, r, fail)
       IN IF _is_exempt_path(r.path)
          THEN /\ reqTenant' = [reqTenant EXCEPT ![w] = NoTenant]
               /\ carrier' = [carrier EXCEPT ![Slot(w)] = set_current_tenant(c0, NoTenant)]
               /\ pc' = [pc EXCEPT ![w] = "handler"]
               /\ logged' = [logged EXCEPT ![w] = NoTenant]
               /\ UNCHANGED <<cache, rate, resp>>
          ELSE IF counted > RateLimit
          THEN /\ rate' = [rate EXCEPT ![r.ip] = counted]
               /\ reqTenant' = [reqTenant EXCEPT ![w] = Unset]
               /\ carrier' = [carrier EXCEPT ![Slot(w)] = clear_thread_locals(c0)]
               /\ resp' = [resp EXCEPT ![w] = Response(429, "rate_limit_exceeded")]
               /\ logged' = [logged EXCEPT ![w] = NoTenant]
               /\ UNCHANGED <<cache, pc>>
          ELSE /\ rate' = [rate EXCEPT ![r.ip] = counted]
               /\ cache' = res.cache
               /\ IF res.raised
                  THEN /\ reqTenant' = [reqTenant EXCEPT ![w] = Unset]
                       /\ carrier' = [carrier EXCEPT ![Slot(w)] = c0]
                       /\ resp' = [resp EXCEPT ![w] = Propagated]
                       /\ logged' = [logged EXCEPT ![w] = NoTenant]
                       /\ UNCHANGED pc
                  ELSE IF ~Truthy(res.res)
                  THEN /\ reqTenant' = [reqTenant EXCEPT ![w] = Unset]
                       /\ logged' = [logged EXCEPT ![w] = get_current_tenant(c0)]
                       /\ carrier' = [carrier EXCEPT ![Slot(w)] = clear_thread_locals(c0)]
                       /\ resp' = [resp EXCEPT ![w] = Response(403, "tenant_not_found")]
                       /\ UNCHANGED pc
                  ELSE IF ~res.res.is_active
                  THEN /\ reqTenant' = [reqTenant EXCEPT ![w] = Unset]
                       /\ logged' = [logged EXCEPT ![w] = get_current_tenant(c0)]
                       /\ carrier' = [carrier EXCEPT ![Slot(w)] = clear_thread_locals(c0)]
                       /\ resp' = [resp EXCEPT ![w] = Response(403, "tenant_inactive")]
                       /\ UNCHANGED pc
                  ELSE /\ reqTenant' = [reqTenant EXCEPT ![w] = res.res.id]
                       /\ carrier' = [carrier EXCEPT ![Slot(w)] = set_current_tenant(c0, res.res.id)]
                       /\ logged' = [logged EXCEPT ![w] = res.res.id]
                       /\ UNCHANGED resp
                       /\ pc' = [pc EXCEPT ![w] = "handler"]

\* A downstream view other than the payment views: it answers or raises.
HandlerRun(w, outcome) ==
    /\ pc[w] = "handler"
    /\ req[w].path \notin PaymentPaths
    /\ pc' = [pc EXCEPT ![w] = "exit"]
    /\ handled' = [handled EXCEPT ![w] = outcome]
    /\ hresp' = [hresp EXCEPT ![w] = IF outcome = "ok" THEN Response(200, "") ELSE NoResp]
    /\ UNCHANGED <<tenants, cache, rate, carrier, req, reqTenant, resp, logged, nreq>>
    /\ UNCHANGED payVars

\* _add_security_headers: X-Tenant-ID from the carrier
_add_security_headers(response, c) ==
    [response EXCEPT !.tenant_id = get_current_tenant(c)]

\* Lines 49-51 (exempt path) and 130-140 (bound path): what follows the
\* return of get_response.
GateExit(w) ==
    /\ pc[w] = "exit"
    /\ pc' = [pc EXCEPT ![w] = "idle"]
    /\ IF _is_exempt_path(req[w].path)
       THEN IF handled[w] = "raise"
            THEN /\ resp' = [resp EXCEPT ![w] = Propagated]
                 /\ UNCHANGED carrier
            ELSE /\ resp' = [resp EXCEPT ![w] = hresp[w]]
                 /\ carrier' = [carrier EXCEPT ![Slot(w)] = clear_thread_locals(carrier[Slot(w)])]
       ELSE /\ resp' = [resp EXCEPT ![w] =
                          IF handled[w] = "raise" THEN Propagated
                          ELSE _add_security_headers(hresp[w], carrier[Slot(w)])]
            /\ carrier' = [carrier EXCEPT ![Slot(w)] = clear_thread_locals(carrier[Slot(w)])]
    /\ UNCHANGED <<tenants, cache, rate, req, reqTenant, logged, handled, hresp, nreq>>
    /\ UNCHANGED payVars

-----------------------------------------------------------------------------
(* The environment of the gate *)

\* toggle_tenant --activate / --deactivate (lines 79-110)
ToggleTenant(t, activate) ==
    /\ tenants[t].is_active # activate
    /\ tenants' = [tenants EXCEPT ![t].is_active = activate]
    /\ cache' = IF activate
                THEN [cache EXCEPT ![<<"name", tenants[t].name>>] = Miss,
                                   ![<<"domain", tenants[t].domain>>] = Miss]
                ELSE cache
    /\ UNCHANGED <<rate, carrier, pc, req, reqTenant, resp, logged, handled, hresp, nreq>>
    /\ UNCHANGED payVars

\* A cache entry reaches its timeout (TENANT_CACHE_TIMEOUT, or 60 s for False).
CacheExpire(k) ==
    /\ cache[k] # Miss
    /\ cache' = [cache EXCEPT ![k] = Miss]
    /\ UNCHANGED <<tenants, rate, carrier, pc, req, reqTenant, resp, logged, handled, hresp, nreq>>
    /\ UNCHANGED payVars

-----------------------------------------------------------------------------
(* products/models.py, payments/models.py: the rows *)

Cents(units) == units * 100

\* The catalog: product 1 of tenant 1 and product 2 of tenant 2, both
\* active and inventory-tracked; product 3 of tenant 1 is inactive.  Money is
\* counted in cents.
Catalog ==
    [p \in {1, 2, 3} |->
        CASE p = 1 -> [tenant |-> 1, is_active |-> TRUE, track_inventory |-> TRUE,
                       stock |-> 1, total_sales |-> 0, name |-> "mug",
                       price |-> Cents(50), discount_type |-> "none", discount_value |-> 0]
          [] p = 2 -> [tenant |-> 2, is_active |-> TRUE, track_inventory |-> TRUE,
                       stock |-> 3, total_sales |-> 0, name |-> "lamp",
                       price |-> Cents(135), discount_type |-> "fixed",
                       discount_value |-> Cents(10)]
          [] p = 3 -> [tenant |-> 1, is_active |-> FALSE, track_inventory |-> FALSE,
                       stock |-> 0, total_sales |-> 0, name |-> "pen",
                       price |-> Cents(5), discount_type |-> "none", discount_value |-> 0]]

Max(a, b) == IF a > b THEN a ELSE b

\* Product.final_price (no discount window set)
final_price(p) ==
    IF p.discount_type = "none" \/ p.discount_value <= 0 THEN p.price
    ELSE IF p.discount_type = "percentage"
    THEN Max(p.price - (p.price * p.discount_value) \div Cents(100), 1)
    ELSE IF p.discount_type = "fixed" THEN Max(p.price - p.discount_value, 1)
    ELSE p.price

\* Product.increment_sales, on the in-memory copy of the row
increment_sales(p, quantity) ==
    [p EXCEPT !.total_sales = p.total_sales + quantity,
              !.stock = Max(0, p.stock - quantity)]

\* CheckoutItemSerializer.quantity
MinQuantity == 1
MaxQuantity == 100

\* A cart line as posted: price is a field the client adds on its own
\* (0: not sent); the serializer declares product_id, quantity and variant.
Line(p, q) == [product_id |-> p, quantity |-> q, price |-> 0]

\* The carts a client posts (9 is the id of no product).
Carts == {<<>>, <<Line(1, 0)>>, <<Line(1, 1)>>, <<Line(1, 2)>>, <<Line(2, 2)>>,
          <<Line(3, 1)>>, <<Line(2, 1), Line(2, 1)>>, <<Line(2, 1), Line(9, 1)>>,
          <<[Line(1, 1) EXCEPT !.price = 1]>>}

\* Lines 104-106: the unit price of a line is product.final_price
unit_price_from_client(product, item) ==
    IF item.price > 0 THEN item.price ELSE final_price(product)

unit_price_of(product, item) == final_price(product)

\* CreateCheckoutSerializer.is_valid
is_valid(cart) ==
    /\ cart # <<>>
    /\ \A i \in 1..Len(cart) :
          cart[i].quantity >= MinQuantity /\ cart[i].quantity <= MaxQuantity

EventTypes == {"checkout.session.completed", "payment_intent.succeeded",
               "payment_intent.payment_failed"}

NoEvent == [type |-> "", booking_id |-> 0, intent |-> 0, sigok |-> FALSE,
            wellformed |-> FALSE]

\* The events the gateway (or anyone) posts: the metadata names booking b
\* (0: no booking_id in the metadata), the payment intent of booking b has
\* id b; an event with a bad signature and one with a malformed payload.
Events ==
    {[type |-> t, booking_id |-> b, intent |-> IF b = 0 THEN 1 ELSE b, sigok |-> TRUE,
      wellformed |-> TRUE] : t \in EventTypes, b \in 0..nextId}
    \cup {[type |-> "checkout.session.completed", booking_id |-> 1, intent |-> 1,
           sigok |-> ok, wellformed |-> ~ok] : ok \in BOOLEAN}

\* stripe.Webhook.construct_event (lines 244-253): the event, or the
\* exception the view answers 400 for
construct_event_unverified(ev) == "ok"

construct_event(ev) ==
    IF ~ev.wellformed THEN "invalid_payload"
    ELSE IF ~ev.sigok THEN "invalid_signature"
    ELSE "ok"

NoTx == [on |-> FALSE, bookings |-> <<>>, items |-> <<>>]
NoObj == [id |-> 0]
NoLoc == [cart |-> <<>>, idx |-> 0, items_data |-> <<>>, booking |-> 0,
          ev |-> NoEvent, obj |-> NoObj, list |-> <<>>]

RECURSIVE SumTotals(_)
SumTotals(s) == IF s = <<>> THEN 0 ELSE Head(s).line_total + SumTotals(Tail(s))

\* The rows a worker sees: what is committed, overlaid with its own writes.
Overlay(base, own) ==
    [k \in DOMAIN base \cup DOMAIN own |-> IF k \in DOMAIN own THEN own[k] ELSE base[k]]

\* transaction.atomic(): the block is left by an exception
RollbackKeepsWrites(w) ==
    /\ bookings' = Overlay(bookings, tx[w].bookings)
    /\ items' = Overlay(items, tx[w].items)
    /\ tx' = [tx EXCEPT ![w] = NoTx]

Rollback(w) ==
    /\ tx' = [tx EXCEPT ![w] = NoTx]
    /\ UNCHANGED <<bookings, items>>

\* transaction.atomic(): the block is left by a return
Commit(w, own) ==
    /\ bookings' = Overlay(bookings, own.bookings)
    /\ items' = Overlay(items, own.items)
    /\ tx' = [tx EXCEPT ![w] = NoTx]

\* The view returns its response to the middleware.
Return(w, response) ==
    /\ pc' = [pc EXCEPT ![w] = "exit"]
    /\ handled' = [handled EXCEPT ![w] = "ok"]
    /\ hresp' = [hresp EXCEPT ![w] = response]
    /\ loc' = [loc EXCEPT ![w] = NoLoc]

gateFrame == <<tenants, cache, rate, carrier, req, reqTenant, resp, logged, nreq>>

-----------------------------------------------------------------------------
(* payments/views.py: BookingViewSet *)

\* get_queryset + list: the bookings of request.tenant
ListBookings(w) ==
    /\ pc[w] = "handler"
    /\ req[w].path = BookingsPath
    /\ LET tenant == reqTenant[w]
           rows == IF tenant <= NoTenant THEN {}
                   ELSE {b \in DOMAIN bookings : bookings[b].tenant = tenant}
       IN touched' = [touched EXCEPT ![w] = @ \cup {bookings[b].tenant : b \in rows}]
    /\ Return(w, Response(200, "bookings"))
    /\ UNCHANGED gateFrame
    /\ UNCHANGED <<products, bookings, items, nextId, tx, sessions, mails, clock>>

\* create_checkout, lines 64-79: tenant check, serializer, atomic block entered
CkBegin(w, cart) ==
    /\ pc[w] = "handler"
    /\ req[w].path = CheckoutPath
    /\ IF reqTenant[w] <= NoTenant
       THEN Return(w, Response(400, "tenant_not_found")) /\ UNCHANGED tx
       ELSE IF ~is_valid(cart)
       THEN Return(w, Response(400, "invalid")) /\ UNCHANGED tx
       ELSE /\ loc' = [loc EXCEPT ![w] = [NoLoc EXCEPT !.cart = cart, !.idx = 1]]
            /\ tx' = [tx EXCEPT ![w] = [NoTx EXCEPT !.on = TRUE]]
            /\ pc' = [pc EXCEPT ![w] = "ck_load"]
            /\ UNCHANGED <<handled, hresp>>
    /\ UNCHANGED gateFrame
    /\ UNCHANGED <<products, bookings, items, nextId, sessions, mails, clock, touched>>

\* Lines 84-115, one turn of the loop: the product of the tenant, its stock,
\* its price
CkLoadItem(w) ==
    /\ pc[w] = "ck_load"
    /\ LET item == loc[w].cart[loc[w].idx]
           tenant == reqTenant[w]
           found == {p \in DOMAIN products :
                        /\ p = item.product_id
                        /\ products[p].tenant = tenant
                        /\ products[p].is_active}
       IN IF found = {}
          THEN /\ Return(w, Response(404, "product_not_found"))
               /\ Commit(w, tx[w])
               /\ UNCHANGED touched
          ELSE LET product == products[item.product_id]
                   unit_price == unit_price_of(product, item)
                   line_total == unit_price * item.quantity
               IN /\ touched' = [touched EXCEPT ![w] = @ \cup {product.tenant}]
                  /\ IF product.track_inventory /\ product.stock < item.quantity
                     THEN /\ Return(w, Response(400, "insufficient_stock"))
                          /\ Commit(w, tx[w])
                     ELSE /\ loc' = [loc EXCEPT
                                ![w].items_data = Append(@,
                                    [product |-> item.product_id,
                                     name |-> product.name,
                                     quantity |-> item.quantity,
                                     unit_price |-> unit_price,
                                     line_total |-> line_total]),
                                ![w].idx = @ + 1]
                          /\ pc' = [pc EXCEPT ![w] =
                                IF loc[w].idx = Len(loc[w].cart) THEN "ck_create" ELSE "ck_load"]
                          /\ UNCHANGED <<handled, hresp, tx, bookings, items>>
    /\ UNCHANGED gateFrame
    /\ UNCHANGED <<products, nextId, sessions, mails, clock>>

\* Lines 117-133: shipping, total, Booking.objects.create
CkCreateBooking(w) ==
    /\ pc[w] = "ck_create"
    /\ LET subtotal == SumTotals(loc[w].items_data)
           shipping_cost == IF subtotal > Cents(250) THEN 0 ELSE Cents(25)
           row == [tenant |-> reqTenant[w], status |-> "UNPAID", subtotal |-> subtotal,
                   shipping_cost |-> shipping_cost, total |-> subtotal + shipping_cost,
                   session |-> 0, intent |-> 0, paid_at |-> 0]
       IN /\ tx' = [tx EXCEPT ![w].bookings = (nextId :> row) @@ @]
          /\ loc' = [loc EXCEPT ![w].booking = nextId, ![w].idx = 1]
    /\ nextId' = nextId + 1
    /\ touched' = [touched EXCEPT ![w] = @ \cup {reqTenant[w]}]
    /\ pc' = [pc EXCEPT ![w] = "ck_items"]
    /\ UNCHANGED gateFrame
    /\ UNCHANGED <<handled, hresp, products, bookings, items, sessions, mails, clock>>

\* BookingItem.save: line_total = unit_price * quantity
BookingItem_save_as_given(row) == row

BookingItem_save(row) == [row EXCEPT !.line_total = row.unit_price * row.quantity]

\* Lines 136-149, one turn of the loop: BookingItem.objects.create
CkCreateItem(w) ==
    /\ pc[w] = "ck_items"
    /\ LET d == loc[w].items_data[loc[w].idx]
           row == BookingItem_save(
                    [tenant |-> reqTenant[w], booking |-> loc[w].booking,
                     product |-> d.product, product_name |-> d.name,
                     unit_price |-> d.unit_price, quantity |-> d.quantity,
                     line_total |-> d.line_total])
       IN tx' = [tx EXCEPT ![w].items = (<<loc[w].booking, loc[w].idx>> :> row) @@ @]
    /\ loc' = [loc EXCEPT ![w].idx = @ + 1]
    /\ pc' = [pc EXCEPT ![w] =
          IF loc[w].idx = Len(loc[w].items_data) THEN "ck_stripe" ELSE "ck_items"]
    /\ UNCHANGED gateFrame
    /\ UNCHANGED <<handled, hresp, products, bookings, items, nextId, sessions, mails,
                   clock, touched>>

\* Lines 151-193 and 208-213: stripe.checkout.Session.create answers or
\* raises StripeError
CkStripe(w, ok) ==
    /\ pc[w] = "ck_stripe"
    /\ IF ok
       THEN /\ sessions' = sessions \cup {loc[w].booking}
            /\ pc' = [pc EXCEPT ![w] = "ck_save"]
            /\ UNCHANGED <<handled, hresp, loc, tx, bookings, items>>
       ELSE /\ Return(w, Response(500, "payment_error"))
            /\ Rollback(w)
            /\ UNCHANGED sessions
    /\ UNCHANGED gateFrame
    /\ UNCHANGED <<products, nextId, mails, clock, touched>>

\* A checkout that takes the units of its items out of stock itself.
CkSaveSession_reserves(w) ==
    /\ pc[w] = "ck_save"
    /\ Commit(w, [tx[w] EXCEPT !.bookings[loc[w].booking].session = loc[w].booking])
    /\ Return(w, [booking_id |-> loc[w].booking] @@ Response(201, "created"))
    /\ products' = [p \in DOMAIN products |->
                       IF \E k \in DOMAIN tx[w].items : tx[w].items[k].product = p
                       THEN increment_sales(products[p], 1)
                       ELSE products[p]]
    /\ UNCHANGED gateFrame
    /\ UNCHANGED <<nextId, sessions, mails, clock, touched>>

\* Lines 195-206: the session id stored, 201 returned, the block committed
CkSaveSession(w) ==
    /\ pc[w] = "ck_save"
    /\ Commit(w, [tx[w] EXCEPT !.bookings[loc[w].booking].session = loc[w].booking])
    /\ Return(w, [booking_id |-> loc[w].booking] @@ Response(201, "created"))
    /\ UNCHANGED gateFrame
    /\ UNCHANGED <<products, nextId, sessions, mails, clock, touched>>

\* Lines 214-219: any other exception inside the block (the database
\* failing at a query or at the commit)
CkRaise(w) ==
    /\ pc[w] \in {"ck_load", "ck_create", "ck_items", "ck_save"}
    /\ Rollback(w)
    /\ Return(w, Response(500, "error"))
    /\ UNCHANGED gateFrame
    /\ UNCHANGED <<products, nextId, sessions, mails, clock, touched>>

-----------------------------------------------------------------------------
(* payments/views.py: stripe_webhook and its handlers (autocommit) *)

\* stripe_webhook, lines 241-268: construct_event, dispatch on the type
WhBegin(w, ev) ==
    /\ pc[w] = "handler"
    /\ req[w].path = WebhookPath
    /\ IF construct_event(ev) # "ok"
       THEN Return(w, Response(400, construct_event(ev)))
       ELSE IF ev.type = "checkout.session.completed"
       THEN /\ loc' = [loc EXCEPT ![w] = [NoLoc EXCEPT !.ev = ev]]
            /\ pc' = [pc EXCEPT ![w] = "wh_load"]
            /\ UNCHANGED <<handled, hresp>>
       ELSE IF ev.type = "payment_intent.payment_failed"
       THEN /\ loc' = [loc EXCEPT ![w] = [NoLoc EXCEPT !.ev = ev]]
            /\ pc' = [pc EXCEPT ![w] = "wh_failed"]
            /\ UNCHANGED <<handled, hresp>>
       ELSE Return(w, Response(200, "success"))
    /\ UNCHANGED gateFrame
    /\ UNCHANGED <<products, bookings, items, nextId, tx, sessions, mails, clock, touched>>

\* _handle_checkout_session_completed, lines 277-282: Booking.objects.get(id=...)
WhLoad(w) ==
    /\ pc[w] = "wh_load"
    /\ LET booking_id == loc[w].ev.booking_id
       IN IF booking_id = 0 \/ booking_id \notin DOMAIN bookings
          THEN Return(w, Response(200, "success")) /\ UNCHANGED touched
          ELSE /\ loc' = [loc EXCEPT ![w].obj = [id |-> booking_id] @@ bookings[booking_id],
                                     ![w].booking = booking_id]
               /\ touched' = [touched EXCEPT ![w] = @ \cup {bookings[booking_id].tenant}]
               /\ pc' = [pc EXCEPT ![w] = "wh_paid"]
               /\ UNCHANGED <<handled, hresp>>
    /\ UNCHANGED gateFrame
    /\ UNCHANGED <<products, bookings, items, nextId, tx, sessions, mails, clock>>

\* Booking.mark_as_paid: save(update_fields=['status', 'paid_at', 'updated_at'])
mark_as_paid(row, now) == [row EXCEPT !.status = "PAID", !.paid_at = now]

\* Lines 285-287: status and intent set on the object, mark_as_paid
WhMarkPaid(w) ==
    /\ pc[w] = "wh_paid"
    /\ clock' = clock + 1
    /\ bookings' = [bookings EXCEPT ![loc[w].booking] = mark_as_paid(@, clock + 1)]
    /\ loc' = [loc EXCEPT ![w].obj.status = "PAID",
                          ![w].obj.intent = loc[w].ev.intent,
                          ![w].obj.paid_at = clock + 1]
    /\ pc' = [pc EXCEPT ![w] = "wh_mail"]
    /\ UNCHANGED gateFrame
    /\ UNCHANGED <<handled, hresp, products, items, nextId, tx, sessions, mails, touched>>

ItemsOf(b) == {k \in DOMAIN items : k[1] = b}

RECURSIVE InOrder(_)
InOrder(S) ==
    IF S = {} THEN <<>>
    ELSE LET k == CHOOSE x \in S : \A y \in S : x[2] <= y[2]
         IN <<k>> \o InOrder(S \ {k})

\* _send_confirmation_email (lines 320-369) and the start of the loop over
\* booking.items.all(); send_mail succeeds or raises, which is only logged
WhMailFailureAborts(w, sent) ==
    /\ pc[w] = "wh_mail"
    /\ LET b == loc[w].booking
       IN mails' = IF sent
                   THEN (b :> (IF b \in DOMAIN mails THEN mails[b] + 1 ELSE 1)) @@ mails
                   ELSE mails
    /\ IF ItemsOf(loc[w].booking) = {} \/ ~sent
       THEN Return(w, Response(200, "success"))
       ELSE /\ loc' = [loc EXCEPT ![w].list = InOrder(ItemsOf(loc[w].booking)), ![w].idx = 1]
            /\ pc' = [pc EXCEPT ![w] = "wh_item"]
            /\ UNCHANGED <<handled, hresp>>
    /\ UNCHANGED gateFrame
    /\ UNCHANGED <<products, bookings, items, nextId, tx, sessions, clock, touched>>

WhMail(w, sent) ==
    /\ pc[w] = "wh_mail"
    /\ LET b == loc[w].booking
       IN mails' = IF sent
                   THEN (b :> (IF b \in DOMAIN mails THEN mails[b] + 1 ELSE 1)) @@ mails
                   ELSE mails
    /\ IF ItemsOf(loc[w].booking) = {}
       THEN Return(w, Response(200, "success"))
       ELSE /\ loc' = [loc EXCEPT ![w].list = InOrder(ItemsOf(loc[w].booking)), ![w].idx = 1]
            /\ pc' = [pc EXCEPT ![w] = "wh_item"]
            /\ UNCHANGED <<handled, hresp>>
    /\ UNCHANGED gateFrame
    /\ UNCHANGED <<products, bookings, items, nextId, tx, sessions, clock, touched>>

\* Lines 295-296: item.product is fetched; a null or untracked product is
\* passed over
WhItemLoad(w) ==
    /\ pc[w] = "wh_item"
    /\ LET item == items[loc[w].list[loc[w].idx]]
           last == loc[w].idx = Len(loc[w].list)
       IN IF item.product = 0 \/ ~products[item.product].track_inventory
          THEN /\ IF last THEN Return(w, Response(200, "success"))
                  ELSE /\ loc' = [loc EXCEPT ![w].idx = @ + 1]
                       /\ UNCHANGED <<pc, handled, hresp>>
               /\ touched' = [touched EXCEPT ![w] = @ \cup {item.tenant}
                                 \cup (IF item.product = 0 THEN {}
                                       ELSE {products[item.product].tenant})]
          ELSE /\ loc' = [loc EXCEPT ![w].obj =
                            [id |-> item.product] @@ products[item.product]]
               /\ touched' = [touched EXCEPT ![w] = @ \cup {item.tenant,
                                                           products[item.product].tenant}]
               /\ pc' = [pc EXCEPT ![w] = "wh_sale"]
               /\ UNCHANGED <<handled, hresp>>
    /\ UNCHANGED gateFrame
    /\ UNCHANGED <<products, bookings, items, nextId, tx, sessions, mails, clock>>

\* Line 297: increment_sales on the fetched product and
\* save(update_fields=['total_sales', 'stock'])
WhItemSave(w) ==
    /\ pc[w] = "wh_sale"
    /\ LET item == items[loc[w].list[loc[w].idx]]
           sold == increment_sales(loc[w].obj, item.quantity)
       IN products' = [products EXCEPT ![loc[w].obj.id].total_sales = sold.total_sales,
                                       ![loc[w].obj.id].stock = sold.stock]
    /\ IF loc[w].idx = Len(loc[w].list)
       THEN Return(w, Response(200, "success"))
       ELSE /\ loc' = [loc EXCEPT ![w].idx = @ + 1, ![w].obj = NoObj]
            /\ pc' = [pc EXCEPT ![w] = "wh_item"]
            /\ UNCHANGED <<handled, hresp>>
    /\ UNCHANGED gateFrame
    /\ UNCHANGED <<bookings, items, nextId, tx, sessions, mails, clock, touched>>

\* Lines 301-302 and 316-317: an exception inside a handler (the database
\* failing) is logged; stripe_webhook answers 200 all the same
WhRaisePropagates(w) ==
    /\ pc[w] \in {"wh_load", "wh_paid", "wh_item", "wh_sale", "wh_failed"}
    /\ Return(w, Response(500, "error"))
    /\ UNCHANGED gateFrame
    /\ UNCHANGED <<products, bookings, items, nextId, tx, sessions, mails, clock, touched>>

WhRaise(w) ==
    /\ pc[w] \in {"wh_load", "wh_paid", "wh_item", "wh_sale", "wh_failed"}
    /\ Return(w, Response(200, "success"))
    /\ UNCHANGED gateFrame
    /\ UNCHANGED <<products, bookings, items, nextId, tx, sessions, mails, clock, touched>>

\* Booking.mark_as_failed: save(update_fields=['status', 'updated_at'])
mark_as_failed_reopens(row) == [row EXCEPT !.status = "UNPAID"]

mark_as_failed(row) == [row EXCEPT !.status = "FAILED"]

\* _handle_payment_failed, lines 309-315: the newest booking that stores the
\* payment intent (Meta.ordering = ['-created_at'])
WhFailed(w) ==
    /\ pc[w] = "wh_failed"
    /\ LET found == {b \in DOMAIN bookings : bookings[b].intent = loc[w].ev.intent}
       IN IF found = {}
          THEN UNCHANGED <<bookings, touched>>
          ELSE LET b == CHOOSE x \in found : \A y \in found : y <= x
               IN /\ bookings' = [bookings EXCEPT ![b] = mark_as_failed(@)]
                  /\ touched' = [touched EXCEPT ![w] = @ \cup {bookings[b].tenant}]
    /\ Return(w, Response(200, "success"))
    /\ UNCHANGED gateFrame
    /\ UNCHANGED <<products, items, nextId, tx, sessions, mails, clock>>

-----------------------------------------------------------------------------
(* products/views.py: ProductViewSet, the catalog edited by staff *)

\* The values staff give a product.
CatalogPrices == {Cents(50), Cents(60)}
CatalogNames == {"mug", "cup"}
CatalogDiscounts == {0, Cents(10)}

\* perform_update: serializer.save() on the product
perform_update(p, price, name, discount_value) ==
    /\ p \in DOMAIN products
    /\ products' = [products EXCEPT ![p].price = price, ![p].name = name,
                        ![p].discount_type = IF discount_value > 0 THEN "fixed" ELSE "none",
                        ![p].discount_value = discount_value]
    /\ products' # products
    /\ UNCHANGED gateFrame
    /\ UNCHANGED <<pc, handled, hresp, bookings, items, nextId, tx, loc, sessions, mails,
                   clock, touched>>

\* A delete that takes the order items of the product with it.
perform_destroy_cascade(p) ==
    /\ p \in DOMAIN products
    /\ \A w \in Workers : pc[w] \in {"idle", "handler", "exit"}
    /\ products' = [q \in DOMAIN products \ {p} |-> products[q]]
    /\ items' = [k \in {x \in DOMAIN items : items[x].product # p} |-> items[k]]
    /\ UNCHANGED gateFrame
    /\ UNCHANGED <<pc, handled, hresp, bookings, nextId, tx, loc, sessions, mails, clock,
                   touched>>

\* perform_destroy: instance.delete(); BookingItem.product is
\* on_delete=SET_NULL, so the items of the product lose their reference and
\* stay.  The delete is taken between the steps of the payment views, when
\* no view holds the product or an uncommitted item of it.
perform_destroy(p) ==
    /\ p \in DOMAIN products
    /\ \A w \in Workers : pc[w] \in {"idle", "handler", "exit"}
    /\ products' = [q \in DOMAIN products \ {p} |-> products[q]]
    /\ items' = [k \in DOMAIN items |->
                    IF items[k].product = p THEN [items[k] EXCEPT !.product = 0]
                    ELSE items[k]]
    /\ UNCHANGED gateFrame
    /\ UNCHANGED <<pc, handled, hresp, bookings, nextId, tx, loc, sessions, mails, clock,
                   touched>>

-----------------------------------------------------------------------------
(* Specifications *)

\* No request has been received yet.
InitGate ==
    /\ tenants = PlainDirectory
    /\ cache = [k \in CacheKeys |-> Miss]
    /\ rate = [ip \in IPs |-> 0]
    /\ carrier = [w \in Workers |-> EmptyCarrier]
    /\ pc = [w \in Workers |-> "idle"]
    /\ req = [w \in Workers |-> NoReq]
    /\ reqTenant = [w \in Workers |-> Unset]
    /\ resp = [w \in Workers |-> NoResp]
    /\ logged = [w \in Workers |-> NoTenant]
    /\ handled = [w \in Workers |-> "none"]
    /\ hresp = [w \in Workers |-> NoResp]
    /\ nreq = 0
    /\ tx = [w \in Workers |-> NoTx]
    /\ loc = [w \in Workers |-> NoLoc]
    /\ touched = [w \in Workers |-> {}]

Init ==
    /\ InitGate
    /\ products = Catalog
    /\ bookings = <<>>
    /\ items = <<>>
    /\ nextId = 1
    /\ sessions = {}
    /\ mails = <<>>
    /\ clock = 0

GateTokens == {NoToken, [kind |-> "expired", claim |-> "acme"],
               [kind |-> "invalid", claim |-> "acme"],
               [kind |-> "valid", claim |-> ""],
               [kind |-> "valid", claim |-> "acme"]}

GatePaths == {<<"health">>, <<"api", "products">>}

GateRequests ==
    [id : {nreq + 1}, path : GatePaths, token : GateTokens,
     header : {"", "shop"}, host : {"acme.example.com", "www.example.com"},
     ip : {"client"}]

NextGate ==
    \/ \E r \in GateRequests, fail \in FailPoints :
          nreq < MaxRequests /\ Gate("w1", r, fail)
    \/ \E outcome \in {"ok", "raise"} : HandlerRun("w1", outcome)
    \/ GateExit("w1")
    \/ \E t \in Tenants, a \in BOOLEAN : ToggleTenant(t, a)
    \/ \E k \in CacheKeys : CacheExpire(k)

SpecGate == Init /\ [][NextGate]_vars

\* Two workers serving requests side by side and one after the other.
CarrierRequests ==
    [id : {nreq + 1}, path : GatePaths, token : {NoToken},
     header : {"", "shop"}, host : {"acme.example.com", "www.example.com"},
     ip : {"client"}]

NextCarrier ==
    \/ \E w \in Workers, r \in CarrierRequests, fail \in {"none", "host"} :
          nreq < MaxRequests /\ Gate(w, r, fail)
    \/ \E w \in Workers, outcome \in {"ok", "raise"} : HandlerRun(w, outcome)
    \/ \E w \in Workers : GateExit(w)

SpecCarrier == Init /\ [][NextCarrier]_vars

\* The payment views behind the gate: clients and the payment gateway
\* reach the two tenants by their hosts.
PayRequests ==
    [id : {nreq + 1}, path : {CheckoutPath}, token : {NoToken}, header : {""},
     host : {"acme.example.com", "shop.example.com"}, ip : {"client"}]
    \cup [id : {nreq + 1}, path : {BookingsPath}, token : {NoToken}, header : {""},
          host : {"acme.example.com"}, ip : {"client"}]
    \cup [id : {nreq + 1}, path : {WebhookPath}, token : {NoToken}, header : {""},
          host : {"acme.example.com"}, ip : {"gateway"}]

NextPay ==
    \/ \E w \in Workers, r \in PayRequests : nreq < MaxPayRequests /\ Gate(w, r, "none")
    \/ \E w \in Workers : GateExit(w)
    \/ \E w \in Workers : ListBookings(w)
    \/ \E w \in Workers, cart \in Carts : CkBegin(w, cart)
    \/ \E w \in Workers : CkLoadItem(w)
    \/ \E w \in Workers : CkCreateBooking(w)
    \/ \E w \in Workers : CkCreateItem(w)
    \/ \E w \in Workers, ok \in BOOLEAN : CkStripe(w, ok)
    \/ \E w \in Workers : CkSaveSession(w)
    \/ \E w \in Workers : CkRaise(w)
    \/ \E w \in Workers, ev \in Events : WhBegin(w, ev)
    \/ \E w \in Workers : WhLoad(w)
    \/ \E w \in Workers : WhMarkPaid(w)
    \/ \E w \in Workers, sent \in BOOLEAN : WhMail(w, sent)
    \/ \E w \in Workers : WhItemLoad(w)
    \/ \E w \in Workers : WhItemSave(w)
    \/ \E w \in Workers : WhRaise(w)
    \/ \E w \in Workers : WhFailed(w)

SpecPay == Init /\ [][NextPay]_vars

\* The payment views on a single worker: the requests are served one after
\* the other.
NextPaySeq ==
    \/ \E r \in PayRequests : nreq < MaxSeqRequests /\ Gate("w1", r, "none")
    \/ GateExit("w1")
    \/ ListBookings("w1")
    \/ \E cart \in Carts : CkBegin("w1", cart)
    \/ CkLoadItem("w1")
    \/ CkCreateBooking("w1")
    \/ CkCreateItem("w1")
    \/ \E ok \in BOOLEAN : CkStripe("w1", ok)
    \/ CkSaveSession("w1")
    \/ CkRaise("w1")
    \/ \E ev \in Events : WhBegin("w1", ev)
    \/ WhLoad("w1")
    \/ WhMarkPaid("w1")
    \/ \E sent \in BOOLEAN : WhMail("w1", sent)
    \/ WhItemLoad("w1")
    \/ WhItemSave("w1")
    \/ WhRaise("w1")
    \/ WhFailed("w1")

SpecPaySeq == Init /\ [][NextPaySeq]_vars

\* One worker serving the payment views while staff edit and delete
\* product 1.
CatalogRequests ==
    [id : {nreq + 1}, path : {CheckoutPath}, token : {NoToken}, header : {""},
     host : {"acme.example.com"}, ip : {"client"}]
    \cup [id : {nreq + 1}, path : {WebhookPath}, token : {NoToken}, header : {""},
          host : {"acme.example.com"}, ip : {"gateway"}]

CatalogCarts == {<<Line(1, 1)>>, <<Line(1, 1), Line(3, 1)>>}

NextCatalog ==
    \/ \E r \in CatalogRequests : nreq < MaxCatalogRequests /\ Gate("w1", r, "none")
    \/ GateExit("w1")
    \/ \E cart \in CatalogCarts : CkBegin("w1", cart)
    \/ CkLoadItem("w1")
    \/ CkCreateBooking("w1")
    \/ CkCreateItem("w1")
    \/ \E ok \in BOOLEAN : CkStripe("w1", ok)
    \/ CkSaveSession("w1")
    \/ CkRaise("w1")
    \/ \E ev \in Events : WhBegin("w1", ev)
    \/ WhLoad("w1")
    \/ WhMarkPaid("w1")
    \/ \E sent \in BOOLEAN : WhMail("w1", sent)
    \/ WhItemLoad("w1")
    \/ WhItemSave("w1")
    \/ WhRaise("w1")
    \/ WhFailed("w1")
    \/ \E price \in CatalogPrices, name \in CatalogNames, discount_value \in CatalogDiscounts :
          perform_update(1, price, name, discount_value)
    \/ perform_destroy(1)

SpecCatalog == Init /\ [][NextCatalog]_vars

\* Two orders of tenant 2, one unit of product 2 each, both waiting for their
\* payment (the state two successful checkouts leave behind), and the
\* gateway delivering their 'checkout completed' events to two workers.
InitRace ==
    /\ InitGate
    /\ products = Catalog
    /\ bookings = [b \in {1, 2} |->
                      [tenant |-> 2, status |-> "UNPAID", subtotal |-> Cents(125),
                       shipping_cost |-> Cents(25), total |-> Cents(150),
                       session |-> b, intent |-> 0, paid_at |-> 0]]
    /\ items = [k \in {<<1, 1>>, <<2, 1>>} |->
                   [tenant |-> 2, booking |-> k[1], product |-> 2,
                    product_name |-> Catalog[2].name, unit_price |-> Cents(125),
                    quantity |-> 1, line_total |-> Cents(125)]]
    /\ nextId = 3
    /\ sessions = {1, 2}
    /\ mails = <<>>
    /\ clock = 0

RaceRequests ==
    [id : {nreq + 1}, path : {WebhookPath}, token : {NoToken}, header : {""},
     host : {"shop.example.com"}, ip : {"gateway"}]

RaceEvents == {ev \in Events : ev.type = "checkout.session.completed" /\ ev.booking_id > 0}

NextRace ==
    \/ \E w \in Workers, r \in RaceRequests : nreq < MaxRaceRequests /\ Gate(w, r, "none")
    \/ \E w \in Workers : GateExit(w)
    \/ \E w \in Workers, ev \in RaceEvents : WhBegin(w, ev)
    \/ \E w \in Workers : WhLoad(w)
    \/ \E w \in Workers : WhMarkPaid(w)
    \/ \E w \in Workers, sent \in BOOLEAN : WhMail(w, sent)
    \/ \E w \in Workers : WhItemLoad(w)
    \/ \E w \in Workers : WhItemSave(w)

SpecRace == InitRace /\ [][NextRace]_vars

\* A Directory create_tenant also admits: the name of one tenant is the
\* leading label of the other tenant's domain.
CrossedDirectory ==
    [t \in Tenants |->
        IF t = 1 THEN [name |-> "shop", domain |-> "acme.example.com", is_active |-> TRUE]
        ELSE [name |-> "acme", domain |-> "shop.example.com", is_active |-> TRUE]]

\* The gate resolving by host alone, over either Directory.
InitHosts ==
    /\ tenants \in {PlainDirectory, CrossedDirectory}
    /\ cache = [k \in CacheKeys |-> Miss]
    /\ rate = [ip \in IPs |-> 0]
    /\ carrier = [w \in Workers |-> EmptyCarrier]
    /\ pc = [w \in Workers |-> "idle"]
    /\ req = [w \in Workers |-> NoReq]
    /\ reqTenant = [w \in Workers |-> Unset]
    /\ resp = [w \in Workers |-> NoResp]
    /\ logged = [w \in Workers |-> NoTenant]
    /\ handled = [w \in Workers |-> "none"]
    /\ hresp = [w \in Workers |-> NoResp]
    /\ nreq = 0
    /\ tx = [w \in Workers |-> NoTx]
    /\ loc = [w \in Workers |-> NoLoc]
    /\ touched = [w \in Workers |-> {}]
    /\ products = Catalog
    /\ bookings = <<>>
    /\ items = <<>>
    /\ nextId = 1
    /\ sessions = {}
    /\ mails = <<>>
    /\ clock = 0

HostRequests ==
    [id : {nreq + 1}, path : GatePaths, token : {NoToken}, header : {""}, host : Hosts,
     ip : {"client"}]

NextHosts ==
    \/ \E r \in HostRequests : nreq < MaxRequests /\ Gate("w1", r, "none")
    \/ \E outcome \in {"ok", "raise"} : HandlerRun("w1", outcome)
    \/ GateExit("w1")
    \/ \E t \in Tenants, a \in BOOLEAN : ToggleTenant(t, a)
    \/ \E k \in CacheKeys : CacheExpire(k)

SpecHosts == InitHosts /\ [][NextHosts]_vars

\* Booking.STATUS_CHOICES
Statuses == {"UNPAID", "PENDING", "PAID", "FAILED", "REFUNDED", "CANCELLED"}

\* The Payment Reconciler over a ledger that holds one order of tenant 1 (one
\* unit of product 1) in any status, with or without a stored payment-intent
\* id (0: the field is empty); a paid order has its paid_at and its unit is
\* sold.
InitLedger ==
    /\ InitGate
    /\ \E status \in Statuses, intent \in {0, 1} :
          LET paid == status \in {"PAID", "REFUNDED"}
          IN /\ bookings = (1 :> [tenant |-> 1, status |-> status, subtotal |-> Cents(50),
                                  shipping_cost |-> Cents(25), total |-> Cents(75),
                                  session |-> 1, intent |-> intent,
                                  paid_at |-> IF paid THEN 1 ELSE 0])
             /\ products = IF paid THEN [Catalog EXCEPT ![1] = increment_sales(@, 1)]
                           ELSE Catalog
    /\ items = (<<1, 1>> :> [tenant |-> 1, booking |-> 1, product |-> 1,
                             product_name |-> Catalog[1].name, unit_price |-> Cents(50),
                             quantity |-> 1, line_total |-> Cents(50)])
    /\ nextId = 2
    /\ sessions = {1}
    /\ mails = <<>>
    /\ clock = 1

LedgerRequests ==
    [id : {nreq + 1}, path : {WebhookPath}, token : {NoToken}, header : {""},
     host : Hosts, ip : {"gateway"}]

NextLedger ==
    \/ \E r \in LedgerRequests : nreq < MaxRequests /\ Gate("w1", r, "none")
    \/ GateExit("w1")
    \/ \E ev \in Events : WhBegin("w1", ev)
    \/ WhLoad("w1")
    \/ WhMarkPaid("w1")
    \/ \E sent \in BOOLEAN : WhMail("w1", sent)
    \/ WhItemLoad("w1")
    \/ WhItemSave("w1")
    \/ WhRaise("w1")
    \/ WhFailed("w1")

SpecLedger == InitLedger /\ [][NextLedger]_vars

\* BookingItem.save under any caller: the rows and the field values a caller
\* may hand to it.
ItemKeys == {<<1, 1>>, <<1, 2>>, <<2, 1>>}
ItemPrices == {1, Cents(50)}
ItemQuantities == {MinQuantity, 2, MaxQuantity}
ItemTotals == {0, Cents(50), Cents(100)}

ItemSave(k, unit_price, quantity, line_total) ==
    /\ items' = (k :> BookingItem_save(
                        [tenant |-> 1, booking |-> k[1], product |-> 1,
                         product_name |-> Catalog[1].name, unit_price |-> unit_price,
                         quantity |-> quantity, line_total |-> line_total])) @@ items
    /\ UNCHANGED gateFrame
    /\ UNCHANGED <<pc, handled, hresp, products, bookings, nextId, tx, loc, sessions,
                   mails, clock, touched>>

NextItem ==
    \E k \in ItemKeys, unit_price \in ItemPrices, quantity \in ItemQuantities,
       line_total \in ItemTotals : ItemSave(k, unit_price, quantity, line_total)

SpecItem == Init /\ [][NextItem]_vars

-----------------------------------------------------------------------------
(* Properties of the Isolation Gate *)

\* The request is one the gate resolves a tenant for: not exempt, within
\* the rate limit, every dependency up.
Resolved(r, fail) ==
    /\ ~_is_exempt_path(r.path)
    /\ _apply_rate_limiting(rate[r.ip]) <= RateLimit
    /\ fail = "none"

\* The active tenants of the Directory that an identifier of each kind names.
ActiveByName(n) == {t \in Tenants : tenants[t].is_active /\ tenants[t].name = n}
ActiveByClaim(n) ==
    {t \in Tenants : tenants[t].is_active /\ (tenants[t].name = n \/ tenants[t].domain = n)}
ActiveByHost(h) ==
    {t \in Tenants : /\ tenants[t].is_active
                     /\ \/ tenants[t].domain = h
                        \/ Label(h) \notin {"", "www"} /\ tenants[t].name = Label(h)}

\* C2  Guaranteed cleanup: whenever __call__ is not running on a worker (it
\* has returned or raised), the worker's carrier holds neither a tenant nor
\* a request.
C2_CleanupOnEveryExit ==
    \A w \in Workers :
        pc[w] = "idle" =>
            /\ get_current_tenant(carrier[Slot(w)]) = NoTenant
            /\ get_current_request(carrier[Slot(w)]) = 0

\* C3  Request-local context: what get_current_tenant() gives while a
\* worker handles a request (to the handler, to the log filter) is none or
\* the tenant the gate bound to that very request, never a tenant of another
\* request, earlier on this worker or running now on another one.
C3_RequestLocalContext ==
    \A w \in Workers :
        /\ logged[w] # NoTenant => logged[w] = reqTenant[w]
        /\ pc[w] # "idle" /\ get_current_tenant(carrier[Slot(w)]) # NoTenant
              => get_current_tenant(carrier[Slot(w)]) = reqTenant[w]

\* A worker handles a request bound to tenant 2 after it answered a request
\* bound to tenant 1, while the other worker handles a request with no
\* tenant.
C3_Witness ==
    \E w, v \in Workers :
        /\ w # v
        /\ pc[w] = "handler" /\ reqTenant[w] = 2 /\ resp[w].tenant_id = 1
        /\ get_current_tenant(carrier[Slot(w)]) = 2
        /\ pc[v] = "handler" /\ reqTenant[v] = NoTenant

\* C4  Resolution precedence: a request with a valid token naming active
\* tenant a and an X-Tenant header naming another active tenant b is bound
\* to a, whatever the cache holds.
C4_TokenPrecedence ==
    [][nreq' # nreq =>
       \A r \in GateRequests \cap {req'["w1"]}, fail \in FailPoints, a, b \in Tenants :
          ( /\ Resolved(r, fail)
            /\ r.token.kind = "valid"
            /\ a # b
            /\ a \in ActiveByClaim(r.token.claim)
            /\ b \in ActiveByName(r.header)
            /\ Gate("w1", r, fail) )
          => (pc'["w1"] = "handler" /\ reqTenant'["w1"] = a)]_vars

\* The token of the request is to be treated as absent.
TokenToIgnore(r) ==
    \/ r.token.kind \in {"expired", "invalid"}
    \/ r.token.kind = "valid" /\ r.token.claim = ""
    \/ r.token.kind = "valid" /\ ActiveByClaim(r.token.claim) = {}

\* C5  A token that is expired, malformed, badly signed, without tenant
\* claim or naming no active tenant changes nothing: the gate answers as it
\* answers the same request without the Authorization header.
C5_BadTokenAsAbsent ==
    [][nreq' # nreq =>
       \A r \in GateRequests \cap {req'["w1"]}, fail \in FailPoints :
          ( /\ Resolved(r, fail)
            /\ TokenToIgnore(r)
            /\ Gate("w1", r, fail) )
          => LET bare == Resolve(cache, tenants, [r EXCEPT !.token = NoToken], fail)
             IN IF Truthy(bare.res)
                THEN pc'["w1"] = "handler" /\ reqTenant'["w1"] = bare.res.id
                ELSE pc'["w1"] = "idle" /\ resp'["w1"] = Response(403, "tenant_not_found")]_vars

\* The tenants of the Directory, active or not, that the identifiers carried
\* by the request name.
Named(r) ==
    {t \in Tenants :
        \/ r.token.kind = "valid" /\ r.token.claim \in {tenants[t].name, tenants[t].domain}
        \/ r.header = tenants[t].name
        \/ r.host = tenants[t].domain
        \/ Label(r.host) \notin {"", "www"} /\ Label(r.host) = tenants[t].name}

\* C6  A request whose identifiers name a tenant of the Directory, and only
\* inactive ones, is answered 403 tenant_inactive.
C6_InactiveIsDistinct ==
    [][nreq' # nreq =>
       \A r \in GateRequests \cap {req'["w1"]}, fail \in FailPoints :
          ( /\ Resolved(r, fail)
            /\ Named(r) # {}
            /\ \A t \in Named(r) : ~tenants[t].is_active
            /\ Gate("w1", r, fail) )
          => resp'["w1"] = Response(403, "tenant_inactive")]_vars

\* Each lookup of the request comes back empty: the identifier is not
\* carried, or its cache entry is False, or it is not cached and names no
\* active tenant.
Empty(key, found) == cache[key] = Neg \/ (cache[key] = Miss /\ found = {})

NothingResolves(r) ==
    /\ \/ r.token.kind # "valid"
       \/ r.token.claim = ""
       \/ Empty(<<"jwt", r.token.claim>>, ActiveByClaim(r.token.claim))
    /\ r.header = "" \/ Empty(<<"name", r.header>>, ActiveByName(r.header))
    /\ Empty(<<"domain", r.host>>, ActiveByHost(r.host))

\* C7  When token, header and host all yield no tenant the gate answers 403
\* tenant_not_found, does not call the handler and binds no tenant.
C7_NoDefaultTenant ==
    [][nreq' # nreq =>
       \A r \in GateRequests \cap {req'["w1"]}, fail \in FailPoints :
          ( /\ Resolved(r, fail)
            /\ NothingResolves(r)
            /\ Gate("w1", r, fail) )
          => /\ resp'["w1"] = Response(403, "tenant_not_found")
             /\ pc'["w1"] = "idle"
             /\ handled'["w1"] = "none"
             /\ reqTenant'["w1"] = Unset
             /\ get_current_tenant(carrier'[Slot("w1")]) = NoTenant]_vars

\* A request with a token, a header and a host was answered tenant_not_found.
C7_Witness ==
    /\ resp["w1"] = Response(403, "tenant_not_found")
    /\ pc["w1"] = "idle"
    /\ req["w1"].token.kind = "valid" /\ req["w1"].token.claim = "acme"
    /\ req["w1"].header = "shop"
    /\ req["w1"].host = "acme.example.com"

-----------------------------------------------------------------------------
(* Properties of the payment views *)

\* C1  Tenant isolation: while a worker handles a request the gate has bound
\* to tenant T, every Booking, BookingItem and Product row it has read or
\* written belongs to T.
C1_TenantIsolation ==
    \A w \in Workers :
        pc[w] # "idle" /\ reqTenant[w] > NoTenant => touched[w] \subseteq {reqTenant[w]}

InCheckout(w) ==
    /\ req[w].path = CheckoutPath
    /\ pc[w] \in {"handler", "ck_load", "ck_create", "ck_items", "ck_stripe", "ck_save"}

\* Every item row of a booking is there: the line totals add up to the
\* subtotal the booking was created with, and there is at least one line.
AllItems(b) ==
    /\ ItemsOf(b) # {}
    /\ SumTotals([i \in 1..Cardinality(ItemsOf(b)) |-> items[InOrder(ItemsOf(b))[i]]])
          = bookings[b].subtotal

\* C8  Checkout atomicity: a step of create_checkout other than its return
\* of 201 leaves the persisted Booking and BookingItem rows as they were,
\* and every persisted Booking has all of its BookingItems.
C8_CheckoutAtomicity ==
    [][/\ \A w \in Workers :
             /\ InCheckout(w)
             /\ <<pc[w], loc[w], tx[w]>>' # <<pc[w], loc[w], tx[w]>>
             /\ ~(pc'[w] = "exit" /\ hresp'[w].status = 201)
             => bookings' = bookings /\ items' = items
       /\ \A b \in DOMAIN bookings' : AllItems(b)']_vars

\* A checkout that had created its Booking and BookingItems was refused by
\* the gateway, and no row is persisted.
C8_Witness ==
    /\ \E w \in Workers : pc[w] = "exit" /\ hresp[w].code = "payment_error"
    /\ nextId > 1
    /\ DOMAIN bookings = {}

\* The bookings the two workers have just been answered 201 for.
Created(w) ==
    IF pc[w] = "exit" /\ req[w].path = CheckoutPath /\ hresp[w].status = 201
    THEN {hresp[w].booking_id} ELSE {}

OneUnitOf(p, b) ==
    \A k \in ItemsOf(b) : items[k].product = p /\ items[k].quantity = 1

\* C9  Two checkouts in flight at once, each for one unit of a tracked
\* product that has one unit in stock, do not both end with 201; and no
\* product's stock is ever negative.
C9_OneUnitOneSuccess ==
    /\ \A p \in DOMAIN products : products[p].stock >= 0
    /\ \A w \in Workers, v \in Workers, p \in DOMAIN products :
          /\ w # v
          /\ products[p].track_inventory
          /\ products[p].stock = 1
          /\ Catalog[p].stock = 1
          => ~\E b \in Created(w), c \in Created(v) : OneUnitOf(p, b) /\ OneUnitOf(p, c)

\* The units of product p in the bookings that are PAID.
RECURSIVE Units(_, _)
Units(p, K) ==
    IF K = {} THEN 0
    ELSE LET k == CHOOSE x \in K : TRUE
         IN (IF items[k].product = p /\ bookings[k[1]].status = "PAID"
             THEN items[k].quantity ELSE 0) + Units(p, K \ {k})

\* C10  Replay idempotence: a booking that is PAID keeps its paid_at at
\* every later delivery, and each tracked product's total_sales has grown,
\* and its stock has shrunk, by no more than the units of the PAID
\* bookings' items, each booking counted once.
C10_ReplayIdempotence ==
    [][/\ \A b \in DOMAIN bookings :
             bookings[b].status = "PAID" => bookings'[b].paid_at = bookings[b].paid_at
       /\ \A p \in DOMAIN products :
             /\ products'[p].total_sales <= Units(p, DOMAIN items)'
             /\ products'[p].stock >= Catalog[p].stock - Units(p, DOMAIN items)']_vars

\* C11  A webhook call whose payload is malformed or whose signature does
\* not verify is answered 400 at once: no handler runs, no notification is
\* sent and every Booking, BookingItem and Product stays as it was.
C11_BadSignatureRejected ==
    [][\A w \in Workers :
          pc[w] = "handler" /\ pc'[w] # "handler" =>
             \A ev \in Events :
                ((~ev.wellformed \/ ~ev.sigok) /\ WhBegin(w, ev))
                => /\ pc'[w] = "exit"
                   /\ hresp'[w].status = 400
                   /\ hresp'[w].code \in {"invalid_payload", "invalid_signature"}
                   /\ UNCHANGED <<bookings, items, products, mails>>]_vars

\* A webhook call was answered 400 while booking 1, which its event names,
\* exists and is not paid.
C11_Witness ==
    \E w \in Workers :
        /\ req[w].path = WebhookPath
        /\ pc[w] = "exit"
        /\ hresp[w].status = 400
        /\ 1 \in DOMAIN bookings
        /\ bookings[1].status = "UNPAID"

\* What the lines of a cart cost at the products' computed prices.
RECURSIVE CartTotal(_)
CartTotal(cart) ==
    IF cart = <<>> THEN 0
    ELSE final_price(products[Head(cart).product_id]) * Head(cart).quantity
         + CartTotal(Tail(cart))

\* C12  Price authority: every order create_checkout creates is UNPAID, its
\* subtotal is the sum over the cart lines of the product's final_price
\* times the quantity, whatever price the client sent, and its total is
\* subtotal + shipping_cost; so it is when the order is committed.
C12_PriceAuthority ==
    [][/\ \A w \in Workers :
             \A b \in DOMAIN tx'[w].bookings \ DOMAIN tx[w].bookings :
                LET row == tx'[w].bookings[b]
                IN /\ row.status = "UNPAID"
                   /\ row.subtotal = CartTotal(loc[w].cart)
                   /\ row.total = row.subtotal + row.shipping_cost
       /\ \A b \in DOMAIN bookings' \ DOMAIN bookings :
             /\ bookings'[b].status = "UNPAID"
             /\ bookings'[b].total = bookings'[b].subtotal + bookings'[b].shipping_cost
             /\ \E w \in Workers :
                   /\ b \in DOMAIN tx[w].bookings
                   /\ bookings'[b].subtotal = tx[w].bookings[b].subtotal]_vars

\* An order was created for a cart whose line carries a client-made price
\* of 0.01 for the product that costs 50.00.
C12_Witness ==
    \E w \in Workers :
        /\ pc[w] = "ck_items"
        /\ loc[w].cart[1].price = 1
        /\ tx[w].bookings[loc[w].booking].subtotal = Cents(50)
        /\ tx[w].bookings[loc[w].booking].total = Cents(75)

\* C13  Shipping threshold: every order created with a subtotal of 250.00 or
\* more (250.00 itself included) has shipping_cost 0.00, every order with
\* a smaller subtotal has shipping_cost 25.00.
C13_ShippingThreshold ==
    \A b \in DOMAIN bookings :
        bookings[b].shipping_cost = IF bookings[b].subtotal >= Cents(250) THEN 0 ELSE Cents(25)

FoundBy(ev) == {b \in DOMAIN bookings : bookings[b].intent = ev.intent}

\* C15  A 'payment failed' event whose payment-intent id an order stores
\* makes that order FAILED if it is UNPAID or PENDING, and leaves its status
\* as it is if the order is FAILED, PAID, REFUNDED or CANCELLED.
C15_FailedOnlyIfOpen ==
    [][\A w \in Workers :
          ( /\ pc[w] = "wh_failed"
            /\ FoundBy(loc[w].ev) # {}
            /\ WhFailed(w) )
          => \A b \in FoundBy(loc[w].ev) :
                bookings'[b].status =
                    IF bookings[b].status \in {"UNPAID", "PENDING"} THEN "FAILED"
                    ELSE bookings[b].status]_vars

\* C16  Once an order is PAID no webhook event, in any order and however
\* often it is delivered, makes it UNPAID or PENDING.
C16_PaidNeverReopens ==
    [][\A b \in DOMAIN bookings :
          bookings[b].status = "PAID" => bookings'[b].status \notin {"UNPAID", "PENDING"}]_vars

\* An order that a 'checkout completed' event of this behaviour made PAID
\* was then found by a 'payment failed' event.
C16_Witness ==
    /\ bookings[1].status = "FAILED"
    /\ bookings[1].paid_at > 1

\* C17  Every webhook call whose signature verifies is answered 200
\* success, whatever the event type and however its handler ends; when the
\* order id is missing or names no order, no Booking and no Product changes.
C17_AlwaysAcknowledged ==
    [][\A w \in Workers :
          req[w].path = WebhookPath /\ pc[w] # "exit" /\ pc'[w] = "exit" =>
             /\ pc[w] = "handler" =>
                   \A ev \in Events :
                      (ev.wellformed /\ ev.sigok /\ WhBegin(w, ev))
                      => hresp'[w] = Response(200, "success")
             /\ pc[w] # "handler" => hresp'[w] = Response(200, "success")
             /\ pc[w] = "wh_load" => bookings' = bookings /\ products' = products]_vars

\* A 'checkout completed' event was answered 200 although its handler was
\* cut short by an exception: the order is PAID and the stock is untouched.
C17_Witness ==
    \E w \in Workers :
        /\ req[w].path = WebhookPath
        /\ pc[w] = "exit"
        /\ hresp[w] = Response(200, "success")
        /\ \A v \in Workers \ {w} : pc[v] = "idle"
        /\ \E b \in DOMAIN bookings : bookings[b].status = "PAID"
        /\ products = Catalog

\* C18  After a 'checkout completed' event is processed for an order, the
\* persisted order is PAID, has a paid_at and stores the event's payment
\* intent (the intent of booking b's session has id b), so that a later
\* 'payment failed' event with that intent finds the order.
C18_IntentPersisted ==
    \A b \in DOMAIN bookings :
        bookings[b].status = "PAID" =>
            /\ bookings[b].paid_at > 0
            /\ bookings[b].intent = b
            /\ b \in FoundBy([NoEvent EXCEPT !.intent = b])

\* Every order that is PAID was marked paid once: no event was replayed.
NoReplay == clock = Cardinality({b \in DOMAIN bookings : bookings[b].status = "PAID"})

\* C19  When a 'checkout completed' event makes an order PAID (no replay),
\* each item with a product that tracks inventory takes exactly its quantity
\* off the product's stock and adds exactly its quantity to total_sales; an
\* item whose product is null or untracked changes no product.
C19_ExactStockPerItem ==
    [][\A w \in Workers :
          /\ (pc[w] = "wh_sale" /\ NoReplay /\ WhItemSave(w)) =>
                LET item == items[loc[w].list[loc[w].idx]]
                IN /\ products'[item.product].stock
                         = products[item.product].stock - item.quantity
                   /\ products'[item.product].total_sales
                         = products[item.product].total_sales + item.quantity
          /\ (pc[w] = "wh_item" /\ WhItemLoad(w)) => products' = products]_vars

\* C20  When the confirmation mail cannot be sent the order stays PAID, the
\* handler goes on to the stock and sales updates of the order's items, and
\* the webhook answers 200.
C20_MailFailureIsLoggedOnly ==
    [][\A w \in Workers :
          /\ (pc[w] = "wh_mail" /\ WhMail(w, FALSE)) =>
                LET b == loc[w].booking
                IN /\ bookings'[b].status = "PAID"
                   /\ IF ItemsOf(b) = {}
                      THEN hresp'[w] = Response(200, "success")
                      ELSE /\ pc'[w] = "wh_item"
                           /\ loc'[w].list = InOrder(ItemsOf(b))
                           /\ loc'[w].idx = 1
          /\ (pc[w] \in {"wh_mail", "wh_item", "wh_sale"} /\ pc'[w] = "exit")
                => hresp'[w] = Response(200, "success")]_vars

\* A 'checkout completed' event was answered 200, no confirmation mail was
\* ever sent for its order, and the order is PAID and its unit is sold.
C20_Witness ==
    /\ pc["w1"] = "exit"
    /\ req["w1"].path = WebhookPath
    /\ hresp["w1"] = Response(200, "success")
    /\ DOMAIN mails = {}
    /\ \E b \in DOMAIN bookings : bookings[b].status = "PAID"
    /\ \E p \in DOMAIN products : products[p].total_sales > 0

-----------------------------------------------------------------------------
(* Properties of the tenant cache and the rate limit *)

\* C21  Whenever the gate calls the handler with tenant T bound, T is active
\* in the Directory at that moment: a tenant deactivated in the Directory is
\* bound to no later request, whatever the tenant cache holds.
C21_OnlyActiveBound ==
    [][\A w \in Workers :
          (pc[w] = "idle" /\ pc'[w] = "handler" /\ reqTenant'[w] > NoTenant)
          => tenants[reqTenant'[w]].is_active]_vars

\* C22  A non-exempt request above the per-IP limit is answered 429
\* rate_limit_exceeded before any resolution step: the tenant cache is
\* neither read for the answer nor written, no tenant is bound and the
\* handler is not called, whatever token, header and host it carries and
\* whichever dependency is down.
C22_RateLimitFirst ==
    [][nreq' # nreq =>
       \A r \in GateRequests \cap {req'["w1"]}, fail \in FailPoints :
          ( /\ ~_is_exempt_path(r.path)
            /\ rate[r.ip] >= RateLimit
            /\ Gate("w1", r, fail) )
          => /\ resp'["w1"] = Response(429, "rate_limit_exceeded")
             /\ cache' = cache
             /\ tenants' = tenants
             /\ pc'["w1"] = "idle"
             /\ handled'["w1"] = "none"
             /\ reqTenant'["w1"] = Unset
             /\ get_current_tenant(carrier'[Slot("w1")]) = NoTenant]_vars

\* A request that names an active tenant by token, header and host was
\* refused with 429 while the tenant's cache entries were still absent.
C22_Witness ==
    /\ resp["w1"] = Response(429, "rate_limit_exceeded")
    /\ pc["w1"] = "idle"
    /\ req["w1"].token = [kind |-> "valid", claim |-> "acme"]
    /\ req["w1"].host = "acme.example.com"
    /\ tenants[1].is_active
    /\ cache[<<"jwt", "acme">>] = Miss
    /\ cache[<<"domain", "acme.example.com">>] = Miss

\* The lookups by kind, and the identifiers each kind is asked for.
Kinds == {"jwt", "name", "domain"}
KindIds(kind) ==
    CASE kind = "jwt" -> Names \cup Hosts
      [] kind = "name" -> Names
      [] kind = "domain" -> Hosts

Lookup(kind, c, dir, x) ==
    CASE kind = "jwt" -> _get_tenant_from_jwt(c, dir, [kind |-> "valid", claim |-> x], FALSE)
      [] kind = "name" -> _get_tenant_by_name(c, dir, x)
      [] kind = "domain" -> _get_tenant_by_domain(c, dir, x)

\* Every state of the Directory that toggle_tenant can produce.
Directories ==
    {[t \in Tenants |-> [PlainDirectory[t] EXCEPT !.is_active = a[t]]] :
        a \in [Tenants -> BOOLEAN]}

\* C23  Each lookup kind reads the cache before the Directory and caches
\* both outcomes under its own key.  From every reachable cache and
\* Directory: a lookup of (K, X) leaves an entry under the key of (K, X)
\* and touches no other key; repeated before the entry expires, it returns
\* the same outcome and leaves the cache as it is whatever the Directory
\* holds by then; and a negative entry stored for (K, X) changes nothing in
\* the outcome of a lookup of X by another kind.
C23_CacheFirstPerKind ==
    \A kind \in Kinds : \A x \in KindIds(kind) :
        LET once == Lookup(kind, cache, tenants, x)
        IN /\ once.cache[<<kind, x>>] # Miss
           /\ \A k \in CacheKeys \ {<<kind, x>>} : once.cache[k] = cache[k]
           /\ Truthy(once.res) <=> Truthy(once.cache[<<kind, x>>])
           /\ \A dir \in Directories :
                 LET again == Lookup(kind, once.cache, dir, x)
                 IN /\ again.res = once.res
                    /\ again.cache = once.cache
           /\ \A other \in Kinds \ {kind} :
                 x \in KindIds(other) =>
                    Lookup(other, [cache EXCEPT ![<<kind, x>>] = Neg], tenants, x).res
                       = Lookup(other, cache, tenants, x).res

\* Tenant acme is active; not-found is cached for the token claim acme while
\* the tenant's row is cached for the host acme.example.com.
C23_Witness ==
    /\ tenants[1].is_active
    /\ cache[<<"jwt", "acme">>] = Neg
    /\ Truthy(cache[<<"domain", "acme.example.com">>])
    /\ pc["w1"] = "handler"
    /\ reqTenant["w1"] = 1

-----------------------------------------------------------------------------
(* Properties of the reconciler, the snapshots and the inventory *)

\* C24  No webhook event changes the status of an order that is FAILED,
\* REFUNDED or CANCELLED, no 'payment failed' event changes the status of a
\* PAID order, and every status change the reconciler makes leads from
\* UNPAID or PENDING to PAID or to FAILED.
C24_TerminalStatuses ==
    [][\A b \in DOMAIN bookings :
          bookings'[b].status # bookings[b].status
          => /\ bookings[b].status \in {"UNPAID", "PENDING"}
             /\ bookings'[b].status \in {"PAID", "FAILED"}]_vars

\* The snapshot an order item carries (product_sku, variant_name and
\* product_image are copied at creation the way product_name is).
Snapshot(row) ==
    [product_name |-> row.product_name, unit_price |-> row.unit_price,
     quantity |-> row.quantity, line_total |-> row.line_total,
     booking |-> row.booking, tenant |-> row.tenant]

\* C25  Snapshot immutability: once an order item exists, no change of the
\* catalog product and no webhook event changes its snapshot; deleting the
\* product keeps the item and its snapshot and only sets the item's product
\* reference to null.
C25_SnapshotImmutable ==
    [][\A k \in DOMAIN items :
          /\ k \in DOMAIN items'
          /\ Snapshot(items'[k]) = Snapshot(items[k])
          /\ items'[k].product =
                IF items[k].product \in DOMAIN products' THEN items[k].product ELSE 0]_vars

\* The order is paid, its product has been deleted, and its item still
\* carries the name and the price of the purchase.
C25_Witness ==
    /\ 1 \notin DOMAIN products
    /\ <<1, 1>> \in DOMAIN items
    /\ items[<<1, 1>>].product = 0
    /\ items[<<1, 1>>].product_name = "mug"
    /\ items[<<1, 1>>].unit_price = Cents(50)
    /\ bookings[1].status = "PAID"

\* The worker takes a step of the request it is serving.
StepOf(w) == pc'[w] # pc[w] \/ loc'[w] # loc[w] \/ tx'[w] # tx[w]

\* C26  Only the transition to PAID changes inventory or notifies: every
\* step of create_checkout, whether it ends in 201 or in an error, every
\* 'payment failed' event and every 'payment_intent.succeeded' event leaves
\* the stock and the total_sales of every product as they are and sends no
\* confirmation mail.
C26_OnlyPaidMovesStock ==
    [][\A w \in Workers :
          /\ (req'[w].path = CheckoutPath /\ StepOf(w))
                => products' = products /\ mails' = mails
          /\ (pc[w] = "wh_failed" /\ StepOf(w))
                => products' = products /\ mails' = mails
          /\ \A ev \in Events :
                (ev.type # "checkout.session.completed" /\ WhBegin(w, ev))
                => products' = products /\ mails' = mails]_vars

\* One checkout has stored its session, another has been refused, a webhook
\* call has been answered, and no unit has left the stock and no mail has
\* been sent.
C26_Witness ==
    /\ \E b \in DOMAIN bookings : bookings[b].session = b /\ bookings[b].status = "UNPAID"
    /\ pc["w1"] = "exit" /\ req["w1"].path = CheckoutPath
    /\ hresp["w1"] = Response(400, "insufficient_stock")
    /\ pc["w2"] = "exit" /\ req["w2"].path = WebhookPath
    /\ hresp["w2"] = Response(200, "success")
    /\ products = Catalog
    /\ DOMAIN mails = {}

\* C27  No lost inventory update: once the 'checkout completed' events of
\* two different orders, each holding one unit of the same inventory-tracked
\* product with three units in stock, have both been processed, each event
\* once and in whatever interleaving, the product has total_sales = 2 and
\* stock = 1.
C27_NoLostUpdate ==
    ( /\ \A w \in Workers : pc[w] = "idle"
      /\ nreq = 2
      /\ clock = 2
      /\ \A b \in {1, 2} : bookings[b].status = "PAID" )
    => /\ products[2].total_sales = Catalog[2].total_sales + 2
       /\ products[2].stock = Catalog[2].stock - 2

\* C28  No orphan gateway session: every checkout session create_checkout
\* has created at the gateway belongs to a persisted Booking that stores the
\* session's id, or to a create_checkout still inside its transaction; a
\* failure after the gateway call leaves no session without its Booking.
C28_NoOrphanSession ==
    \A s \in sessions :
        \/ \E w \in Workers : tx[w].on /\ loc[w].booking = s
        \/ s \in DOMAIN bookings /\ bookings[s].session = s

\* C29  Host-based resolution is unambiguous: a request that carries no
\* token and no header, whose host is the domain of active tenant A and is
\* not cached yet, is bound to A, also when another active tenant's name is
\* the leading label of the host and whichever of the two sorts first.
C29_HostNamesOneTenant ==
    [][nreq' # nreq =>
       \A r \in HostRequests \cap {req'["w1"]}, a \in Tenants :
          ( /\ Resolved(r, "none")
            /\ cache[<<"domain", r.host>>] = Miss
            /\ tenants[a].is_active
            /\ tenants[a].domain = r.host
            /\ Gate("w1", r, "none") )
          => /\ pc'["w1"] = "handler"
             /\ reqTenant'["w1"] = a]_vars

=============================================================================
